---- MODULE Spec2Model ----
(***************************************************************************)
(* Model of the peeking-iter crate: the generic lookahead cursor           *)
(* PeekingIter (src/src/lib.rs) and the text cursor Parser                 *)
(* (src/src/parser.rs).  A behaviour wraps one finite sequence S in one    *)
(* cursor of one kind and applies the public operations to it.             *)
(*                                                                         *)
(* The wrapped producer (a Range, a Chars) is modelled by its position in  *)
(* S: cloning it copies the position, stepping it yields S[pos] and moves  *)
(* one element on, and an exhausted producer keeps yielding None.          *)
(* Option<T> is a tuple of length 0 (None) or 1 (Some(x)).                 *)
(***************************************************************************)
EXTENDS Integers, Sequences, FiniteSets, TLC

VARIABLES S, kind, cur, alt, alive, last, committed, peekRun, peeked, onlyNext, usedAdv,
          panicked

vars == <<S, kind, cur, alt, alive, last, committed, peekRun, peeked, onlyNext, usedAdv,
          panicked>>

\* ---------------------------------------------------------------- bounds
MaxLen == 3
UsizeBits == 3
MaxPeekRun == 5

\* ------------------------------------------------------------- constants
Alphabet == {"a", "\n"}
Scenarios == {<<"a", "b", "\n", "c">>, <<"a", "b", "c">>}
UsizeMax == 2^UsizeBits - 1
U16Modulus == 65536
U16Max == U16Modulus - 1

None == <<>>
Some(x) == <<x>>

Seqs == UNION {[1..n -> Alphabet] : n \in 0..MaxLen}

Min(a, b) == IF a < b THEN a ELSE b

\* --------------------------------------------------- the wrapped producer
\* I::next on a producer at position it (0-based count of elements passed).
iter_next(it) ==
  IF it < Len(S) THEN [item |-> Some(S[it + 1]), iter |-> it + 1]
                 ELSE [item |-> None, iter |-> it]

\* Variant: saturating_add.
checked_add1_saturating(n) == Some(IF n = UsizeMax THEN UsizeMax ELSE n + 1)

\* usize::checked_add(n, 1)
checked_add1(n) == IF n = UsizeMax THEN None ELSE Some(n + 1)

\* u16 += 1 as a build without overflow checks computes it (it wraps), and
\* whether it overflows; a build with overflow checks panics when it does.
u16_inc(x) == (x + 1) % U16Modulus

u16_inc_overflows(x) == x + 1 > U16Max

\* ------------------------------------------------------------ PeekingIter
PeekingIter_new(it) == [iter |-> it, peeking |-> None]

PeekingIter_next(c) ==
  LET r == iter_next(c.iter)
  IN [res |-> r.item, self |-> [c EXCEPT !.peeking = None, !.iter = r.iter]]

\* Variant: the lookahead producer is not stepped.
PeekingIter_peek_stuck(c) ==
  LET p == IF c.peeking = None THEN c.iter ELSE c.peeking[1]
      r == iter_next(p)
  IN [res |-> r.item, self |-> [c EXCEPT !.peeking = Some(p)]]

PeekingIter_peek(c) ==
  LET p == IF c.peeking = None THEN c.iter ELSE c.peeking[1]
      r == iter_next(p)
  IN [res |-> r.item, self |-> [c EXCEPT !.peeking = Some(r.iter)]]

\* (0..n1).flat_map(|_| self.peek()).last(): n1 peeks, the last Some kept.
RECURSIVE PeekingIter_peek_fold(_, _, _)
PeekingIter_peek_fold(c, n1, acc) ==
  IF n1 = 0 THEN [res |-> acc, self |-> c]
  ELSE LET r == PeekingIter_peek(c)
       IN PeekingIter_peek_fold(r.self, n1 - 1, IF r.res = None THEN acc ELSE r.res)

PeekingIter_peek_nth(c, n) ==
  LET n1 == checked_add1(n)
  IN IF n1 = None THEN [res |-> None, self |-> c]
     ELSE PeekingIter_peek_fold(c, n1[1], None)

\* Variant: the two producers are swapped.
PeekingIter_advance_to_peeked_swap(c) ==
  IF c.peeking # None THEN [c EXCEPT !.iter = c.peeking[1], !.peeking = Some(c.iter)] ELSE c

\* Variant: the lookahead producer is moved out (Option::take), not cloned.
PeekingIter_advance_to_peeked_take(c) ==
  IF c.peeking # None THEN [c EXCEPT !.iter = c.peeking[1], !.peeking = None] ELSE c

PeekingIter_advance_to_peeked(c) ==
  IF c.peeking # None THEN [c EXCEPT !.iter = c.peeking[1]] ELSE c

PeekingIter_rewind_peeking(c) == [c EXCEPT !.peeking = None]

\* The loop of next_while; calls counts the predicate calls and taken
\* collects what the self.next() calls of the loop yielded.
\* cands lists the positions in S of the elements pred was called on, stop
\* tells which break ended the loop, ovf whether a u16 += 1 overflowed.
RECURSIVE PeekingIter_next_while_loop(_, _, _, _, _, _)
PeekingIter_next_while_loop(c, pred, result, calls, taken, cands) ==
  LET p == PeekingIter_peek(c)
      at == IF c.peeking = None THEN c.iter ELSE c.peeking[1]
  IN IF p.res = None
       THEN [res |-> result, self |-> p.self, calls |-> calls, taken |-> taken,
             cands |-> cands, stop |-> "end", ovf |-> FALSE]
     ELSE IF p.res[1] \in pred
       THEN LET nx == PeekingIter_next(p.self)
            IN PeekingIter_next_while_loop(nx.self, pred, Append(result, p.res[1]),
                                           calls + 1, taken \o nx.res, Append(cands, at))
     ELSE [res |-> result, self |-> p.self, calls |-> calls + 1, taken |-> taken,
           cands |-> Append(cands, at), stop |-> "reject", ovf |-> FALSE]

\* Variant: no rewind before the loop.
PeekingIter_next_while_norewind(c, pred) ==
  LET r == PeekingIter_next_while_loop(c, pred, <<>>, 0, <<>>, <<>>)
  IN [r EXCEPT !.self = PeekingIter_rewind_peeking(r.self)]

PeekingIter_next_while(c, pred) ==
  LET r == PeekingIter_next_while_loop(PeekingIter_rewind_peeking(c), pred, <<>>, 0, <<>>, <<>>)
  IN [r EXCEPT !.self = PeekingIter_rewind_peeking(r.self)]

\* Variant: the lookahead producer is returned when there is one.
PeekingIter_into_inner_peeking(c) == IF c.peeking = None THEN c.iter ELSE c.peeking[1]

PeekingIter_into_inner(c) == c.iter

\* ----------------------------------------------------------------- Parser
\* Variant: line starts at 0.
Parser_new_line0(it) == [iter |-> it, peeking |-> None, line |-> 0, col |-> 0]

Parser_new(it) == [iter |-> it, peeking |-> None, line |-> 1, col |-> 0]

\* Variant: the lookahead is not discarded.
Parser_next_keeppeek(c) ==
  LET r == iter_next(c.iter)
      c1 == [c EXCEPT !.iter = r.iter]
  IN [res |-> r.item,
      self |-> IF r.item = None THEN c1
               ELSE IF r.item = Some("\n")
                 THEN [c1 EXCEPT !.line = u16_inc(c.line), !.col = 0]
               ELSE [c1 EXCEPT !.col = u16_inc(c.col)],
      ovf |-> FALSE]

\* Variant: a newline does not reset col.
Parser_next_keepcol(c) ==
  LET r == iter_next(c.iter)
      c1 == [c EXCEPT !.peeking = None, !.iter = r.iter]
  IN [res |-> r.item,
      self |-> IF r.item = None THEN c1
               ELSE IF r.item = Some("\n")
                 THEN [c1 EXCEPT !.line = u16_inc(c.line)]
               ELSE [c1 EXCEPT !.col = u16_inc(c.col)],
      ovf |-> FALSE]

Parser_next(c) ==
  LET r == iter_next(c.iter)
      c1 == [c EXCEPT !.peeking = None, !.iter = r.iter]
  IN [res |-> r.item,
      self |-> IF r.item = None THEN c1
               ELSE IF r.item = Some("\n")
                 THEN [c1 EXCEPT !.line = u16_inc(c.line), !.col = 0]
               ELSE [c1 EXCEPT !.col = u16_inc(c.col)],
      ovf |-> IF r.item = None THEN FALSE
              ELSE IF r.item = Some("\n") THEN u16_inc_overflows(c.line)
              ELSE u16_inc_overflows(c.col)]

\* Variant: a peeked character counts as a column.
Parser_peek_counts(c) ==
  LET p == IF c.peeking = None THEN c.iter ELSE c.peeking[1]
      r == iter_next(p)
  IN [res |-> r.item,
      self |-> [c EXCEPT !.peeking = Some(r.iter), !.col = u16_inc(c.col)]]

\* Variant: a fresh lookahead is the base producer itself, not a clone.
Parser_peek_base(c) ==
  LET p == IF c.peeking = None THEN c.iter ELSE c.peeking[1]
      r == iter_next(p)
  IN [res |-> r.item,
      self |-> IF c.peeking = None THEN [c EXCEPT !.peeking = Some(r.iter), !.iter = r.iter]
               ELSE [c EXCEPT !.peeking = Some(r.iter)]]

Parser_peek(c) ==
  LET p == IF c.peeking = None THEN c.iter ELSE c.peeking[1]
      r == iter_next(p)
  IN [res |-> r.item, self |-> [c EXCEPT !.peeking = Some(r.iter)]]

RECURSIVE Parser_peek_fold(_, _, _)
Parser_peek_fold(c, n1, acc) ==
  IF n1 = 0 THEN [res |-> acc, self |-> c]
  ELSE LET r == Parser_peek(c)
       IN Parser_peek_fold(r.self, n1 - 1, IF r.res = None THEN acc ELSE r.res)

Parser_peek_nth(c, n) ==
  LET n1 == checked_add1(n)
  IN IF n1 = None THEN [res |-> None, self |-> c]
     ELSE Parser_peek_fold(c, n1[1], None)

\* Variant: without a lookahead the base producer is stepped once.
Parser_advance_to_peeked_step(c) ==
  IF c.peeking # None THEN [c EXCEPT !.iter = c.peeking[1]]
  ELSE [c EXCEPT !.iter = iter_next(c.iter).iter]

\* Variant: the base producer is not replaced.
Parser_advance_to_peeked_noop(c) == c

Parser_advance_to_peeked(c) ==
  IF c.peeking # None THEN [c EXCEPT !.iter = c.peeking[1]] ELSE c

\* Variant: the lookahead is re-cloned from itself, not from the base.
Parser_rewind_peeking_self(c) ==
  [c EXCEPT !.peeking = Some(IF c.peeking = None THEN c.iter ELSE c.peeking[1])]

Parser_rewind_peeking(c) == [c EXCEPT !.peeking = Some(c.iter)]

RECURSIVE Parser_next_while_loop(_, _, _, _, _, _, _)
Parser_next_while_loop(c, pred, result, calls, taken, cands, ovf) ==
  LET p == Parser_peek(c)
      at == IF c.peeking = None THEN c.iter ELSE c.peeking[1]
  IN IF p.res = None
       THEN [res |-> result, self |-> p.self, calls |-> calls, taken |-> taken,
             cands |-> cands, stop |-> "end", ovf |-> ovf]
     ELSE IF p.res[1] \in pred
       THEN LET nx == Parser_next(p.self)
            IN Parser_next_while_loop(nx.self, pred, Append(result, p.res[1]),
                                      calls + 1, taken \o nx.res, Append(cands, at),
                                      ovf \/ nx.ovf)
     ELSE [res |-> result, self |-> p.self, calls |-> calls + 1, taken |-> taken,
           cands |-> Append(cands, at), stop |-> "reject", ovf |-> ovf]

\* Parser::next_while does not rewind before its loop.
Parser_next_while(c, pred) ==
  LET r == Parser_next_while_loop(c, pred, <<>>, 0, <<>>, <<>>, FALSE)
  IN [r EXCEPT !.self = Parser_rewind_peeking(r.self)]

Parser_into_inner(c) == c.iter

Parser_line(c) == c.line

Parser_col(c) == c.col

\* --------------------------------------------------------- the state machine
\* cur is the cursor under test.  alt is a cursor of the same kind driven by
\* the same calls whose rewind_peeking is the one of the other kind.
\* last records the latest call: its name, arguments, results and the cursor
\* before it.  committed counts the elements yielded by next() (directly or
\* inside next_while); peekRun counts the peek() calls made in a row since
\* creation or the last next() (-1 once another call intervened); peeked is
\* the index of the element the latest peek()/peek_nth() asked for (-1 when
\* the lookahead was discarded since); onlyNext holds while every call so far
\* was next(); usedAdv holds once advance_to_peeked() was called; panicked
\* holds once a call panicked.

\* The operations of the twin cursor that call rewind_peeking: those of the
\* cursor's kind with the rewind_peeking of the other kind.
Twin_PeekingIter_next_while(c, pred) ==
  LET r == PeekingIter_next_while_loop(Parser_rewind_peeking(c), pred, <<>>, 0, <<>>, <<>>)
  IN [r EXCEPT !.self = Parser_rewind_peeking(r.self)]

Twin_Parser_next_while(c, pred) ==
  LET r == Parser_next_while_loop(c, pred, <<>>, 0, <<>>, <<>>, FALSE)
  IN [r EXCEPT !.self = PeekingIter_rewind_peeking(r.self)]

\* The predicates handed to next_while, told apart by the elements of S they accept.
Preds == SUBSET {S[i] : i \in 1..Len(S)}

NoCall == [op |-> "new", n |-> 0, pred |-> {}, res |-> None, altres |-> None,
           pre |-> None, calls |-> 0, taken |-> <<>>, cands |-> <<>>, stop |-> ""]

LookPos(c) == IF c.peeking = None THEN c.iter ELSE c.peeking[1]

Init ==
  /\ S \in Seqs \cup Scenarios
  /\ kind \in {"PeekingIter", "Parser"}
  /\ cur = IF kind = "PeekingIter" THEN PeekingIter_new(0) ELSE Parser_new(0)
  /\ alt = cur
  /\ alive = TRUE
  /\ last = NoCall
  /\ committed = 0
  /\ peekRun = 0
  /\ peeked = -1
  /\ onlyNext = TRUE
  /\ usedAdv = FALSE
  /\ panicked = FALSE

Record(op, n, pred, r, ra) ==
  /\ cur' = r.self
  /\ alt' = ra.self
  /\ last' = [op |-> op, n |-> n, pred |-> pred, res |-> r.res, altres |-> ra.res,
              pre |-> cur,
              calls |-> IF op = "next_while" THEN r.calls ELSE 0,
              taken |-> IF op = "next_while" THEN r.taken ELSE <<>>,
              cands |-> IF op = "next_while" THEN r.cands ELSE <<>>,
              stop |-> IF op = "next_while" THEN r.stop ELSE ""]
  /\ committed' = IF op = "next" THEN committed + Len(r.res)
                  ELSE IF op = "next_while" THEN committed + Len(r.taken)
                  ELSE committed
  /\ peekRun' = IF op = "next" THEN 0
                ELSE IF op = "peek" THEN (IF peekRun >= 0 THEN peekRun + 1 ELSE -1)
                ELSE -1
  /\ peeked' = IF op = "peek" THEN LookPos(cur)
               ELSE IF op = "peek_nth"
                 THEN (IF n = UsizeMax THEN peeked ELSE Min(LookPos(cur) + n, Len(S)))
               ELSE IF op = "advance_to_peeked" THEN peeked
               ELSE -1
  /\ onlyNext' = (onlyNext /\ op = "next")
  /\ usedAdv' = (usedAdv \/ op = "advance_to_peeked")
  /\ UNCHANGED <<S, kind, alive, panicked>>

Unit(c) == [res |-> None, self |-> c]

IsPI == alive /\ kind = "PeekingIter"
IsParser == alive /\ kind = "Parser"

PeekingIterNext ==
  IsPI /\ Record("next", 0, {}, PeekingIter_next(cur), PeekingIter_next(alt))

PeekingIterPeek ==
  /\ IsPI
  /\ peekRun < MaxPeekRun
  /\ Record("peek", 0, {}, PeekingIter_peek(cur), PeekingIter_peek(alt))

PeekingIterPeekNth ==
  /\ IsPI
  /\ \E n \in 0..UsizeMax :
       Record("peek_nth", n, {}, PeekingIter_peek_nth(cur, n), PeekingIter_peek_nth(alt, n))

PeekingIterAdvanceToPeeked ==
  /\ IsPI
  /\ Record("advance_to_peeked", 0, {}, Unit(PeekingIter_advance_to_peeked(cur)),
            Unit(PeekingIter_advance_to_peeked(alt)))

PeekingIterRewindPeeking ==
  /\ IsPI
  /\ Record("rewind_peeking", 0, {}, Unit(PeekingIter_rewind_peeking(cur)),
            Unit(Parser_rewind_peeking(alt)))

PeekingIterNextWhile ==
  /\ IsPI
  /\ \E pred \in Preds :
       Record("next_while", 0, pred, PeekingIter_next_while(cur, pred),
              Twin_PeekingIter_next_while(alt, pred))

ParserNext ==
  IsParser /\ Record("next", 0, {}, Parser_next(cur), Parser_next(alt))

ParserPeek ==
  /\ IsParser
  /\ peekRun < MaxPeekRun
  /\ Record("peek", 0, {}, Parser_peek(cur), Parser_peek(alt))

ParserPeekNth ==
  /\ IsParser
  /\ \E n \in 0..UsizeMax :
       Record("peek_nth", n, {}, Parser_peek_nth(cur, n), Parser_peek_nth(alt, n))

ParserAdvanceToPeeked ==
  /\ IsParser
  /\ Record("advance_to_peeked", 0, {}, Unit(Parser_advance_to_peeked(cur)),
            Unit(Parser_advance_to_peeked(alt)))

ParserRewindPeeking ==
  /\ IsParser
  /\ Record("rewind_peeking", 0, {}, Unit(Parser_rewind_peeking(cur)),
            Unit(PeekingIter_rewind_peeking(alt)))

ParserNextWhile ==
  /\ IsParser
  /\ \E pred \in Preds :
       Record("next_while", 0, pred, Parser_next_while(cur, pred),
              Twin_Parser_next_while(alt, pred))

\* into_inner consumes the cursor: no call follows it.
IntoInner(inner, altinner) ==
  /\ alive' = FALSE
  /\ last' = [op |-> "into_inner", n |-> 0, pred |-> {}, res |-> Some(inner),
              altres |-> Some(altinner), pre |-> cur, calls |-> 0, taken |-> <<>>,
              cands |-> <<>>, stop |-> ""]
  /\ onlyNext' = FALSE
  /\ UNCHANGED <<S, kind, cur, alt, committed, peekRun, peeked, usedAdv, panicked>>

PeekingIterIntoInner ==
  IsPI /\ IntoInner(PeekingIter_into_inner(cur), PeekingIter_into_inner(alt))

ParserIntoInner ==
  IsParser /\ IntoInner(Parser_into_inner(cur), Parser_into_inner(alt))

Next ==
  \/ PeekingIterNext
  \/ PeekingIterPeek
  \/ PeekingIterPeekNth
  \/ PeekingIterAdvanceToPeeked
  \/ PeekingIterRewindPeeking
  \/ PeekingIterNextWhile
  \/ PeekingIterIntoInner
  \/ ParserNext
  \/ ParserPeek
  \/ ParserPeekNth
  \/ ParserAdvanceToPeeked
  \/ ParserRewindPeeking
  \/ ParserNextWhile
  \/ ParserIntoInner

Spec == Init /\ [][Next]_vars

\* ------------------------------------------------- counters at their maximum
\* A Parser far into its input: S is what remains after the first 65535
\* characters were committed through next(), either 65535 characters of one
\* line (col at its maximum) or 65534 newlines (line at its maximum).
\* Positions in S count from there.
LongStarts == {[line |-> 1, col |-> U16Max], [line |-> U16Max, col |-> 0]}

InitLong ==
  /\ S \in Seqs \cup Scenarios
  /\ kind \in {"PeekingIter", "Parser"}
  /\ \E st \in LongStarts :
       cur = IF kind = "PeekingIter" THEN PeekingIter_new(0)
             ELSE [Parser_new(0) EXCEPT !.line = st.line, !.col = st.col]
  /\ alt = cur
  /\ alive = TRUE
  /\ last = NoCall
  /\ committed = 0
  /\ peekRun = 0
  /\ peeked = -1
  /\ onlyNext = TRUE
  /\ usedAdv = FALSE
  /\ panicked = FALSE

\* The call unwinds: the cursor is not used again.
Panic(op, pred) ==
  /\ panicked' = TRUE
  /\ alive' = FALSE
  /\ last' = [NoCall EXCEPT !.op = op, !.pred = pred, !.pre = cur]
  /\ onlyNext' = (onlyNext /\ op = "next")
  /\ UNCHANGED <<S, kind, cur, alt, committed, peekRun, peeked, usedAdv>>

\* Parser::next in a build with overflow checks, when its += 1 overflows.
\* ParserNext is the same call in a build without them.
ParserNextPanics ==
  IsParser /\ Parser_next(cur).ovf /\ Panic("next", {})

ParserNextWhilePanics ==
  /\ IsParser
  /\ \E pred \in Preds : Parser_next_while(cur, pred).ovf /\ Panic("next_while", pred)

NextLong ==
  \/ Next
  \/ ParserNextPanics
  \/ ParserNextWhilePanics

SpecLong == InitLong /\ [][NextLong]_vars

\* ------------------------------------------------- vocabulary of the claims
\* S[i] with 0-based i, end-of-sequence past the end.
Elem(i) == IF i < Len(S) THEN Some(S[i + 1]) ELSE None

\* What next() / peek() would return in cursor state c.
NextOf(c) == IF kind = "PeekingIter" THEN PeekingIter_next(c).res ELSE Parser_next(c).res
PeekOf(c) == IF kind = "PeekingIter" THEN PeekingIter_peek(c).res ELSE Parser_peek(c).res

TypeOK ==
  /\ cur.iter \in 0..Len(S)
  /\ cur.peeking = None \/ cur.peeking[1] \in 0..Len(S)

\* The end of the maximal run from position k: the least j >= k that is the end
\* of S or the position of an element outside pred.
RunEnd(k, pred) ==
  CHOOSE j \in k..Len(S) :
    /\ \A i \in (k + 1)..j : S[i] \in pred
    /\ j = Len(S) \/ S[j + 1] \notin pred

\* peek() called m times in a row on cursor state c, the last result kept.
RECURSIVE PeekTimes(_, _)
PeekTimes(c, m) ==
  LET r == IF kind = "PeekingIter" THEN PeekingIter_peek(c) ELSE Parser_peek(c)
  IN IF m = 1 THEN r ELSE PeekTimes(r.self, m - 1)

NewlinesBefore(i) == Cardinality({j \in 1..i : S[j] = "\n"})

SinceNewline(i) ==
  LET nl == {j \in 1..i : S[j] = "\n"}
  IN IF nl = {} THEN i ELSE i - (CHOOSE j \in nl : \A h \in nl : h <= j)

\* ------------------------------------------------------------------ claims

\* C1: on both cursors, after k calls to next() the base position is k, and
\* the m-th of m consecutive peek() calls made since creation or the last
\* next() returns S[k + m - 1], end-of-sequence at or past |S|; a peek() that
\* returned end-of-sequence is followed by a peek() that returns it too.
C1_PeekSequence ==
  /\ (last.op = "peek" /\ peekRun >= 1) => last.res = Elem(cur.iter + peekRun - 1)
  /\ (last.op = "peek" /\ peekRun = 1) => last.res = NextOf(cur)
  /\ (last.op = "peek" /\ last.res = None) => PeekOf(cur) = None
  /\ ~usedAdv => cur.iter = committed

C1_Witness ==
  /\ last.op = "peek"
  /\ peekRun = 3
  /\ committed = 1
  /\ Len(S) = 3
  /\ last.res = None
  /\ last.pre.peeking = Some(3)
  /\ ~usedAdv

\* C2: peek() and peek_nth(n) leave the base producer where it was: the
\* next() after them returns S[k] for the base position k before them.
C2_PeekKeepsBase ==
  last.op \in {"peek", "peek_nth"} =>
    /\ cur.iter = last.pre.iter
    /\ NextOf(cur) = Elem(last.pre.iter)
    /\ NextOf(cur) = NextOf(last.pre)

C2_Witness ==
  /\ last.op = "peek_nth"
  /\ last.n = 1
  /\ last.pre.peeking = Some(1)
  /\ cur.peeking = Some(3)
  /\ cur.iter = 0
  /\ NextOf(cur) = Some(S[1])

\* C3: PeekingIter::next_while(pred), from an Aligned or a Diverged state with
\* base position k, returns the maximal run S[k..j) of elements satisfying
\* pred, commits exactly those, and leaves the base at j with the next peek()
\* and the next next() both returning S[j] (end-of-sequence if j = |S|).
C3_NextWhileRun ==
  (kind = "PeekingIter" /\ last.op = "next_while") =>
    LET k == last.pre.iter
        j == RunEnd(k, last.pred)
    IN /\ last.res = SubSeq(S, k + 1, j)
       /\ last.taken = last.res
       /\ cur.iter = j
       /\ PeekOf(cur) = Elem(j)
       /\ NextOf(cur) = Elem(j)

C3_Witness ==
  /\ kind = "PeekingIter"
  /\ last.op = "next_while"
  /\ last.pre.iter = 1
  /\ last.pre.peeking = Some(3)
  /\ Len(last.res) = 1
  /\ cur.iter = 2
  /\ NextOf(cur) # None

\* C4: Parser::next_while(pred), from any reachable state with base position
\* k, returns the maximal run S[k..j) of characters satisfying pred, and the
\* returned string is the string of the characters the call committed.
C4_ParserNextWhileRun ==
  (kind = "Parser" /\ last.op = "next_while") =>
    LET k == last.pre.iter
        j == RunEnd(k, last.pred)
    IN /\ last.res = SubSeq(S, k + 1, j)
       /\ last.taken = last.res
       /\ cur.iter = j

\* C5: after peek()/peek_nth() calls the last of which asked for index j,
\* advance_to_peeked() leaves the cursor so that next() returns S[j + 1]
\* (end-of-sequence if j + 1 >= |S|).
C5_AdvanceThenNext ==
  (last.op = "advance_to_peeked" /\ peeked >= 0) => NextOf(cur) = Elem(peeked + 1)

C5_Witness ==
  /\ last.op = "advance_to_peeked"
  /\ peeked = 1
  /\ last.pre.iter = 0
  /\ Len(S) = 3
  /\ NextOf(cur) = Some(S[3])

\* C6: when n + 1 does not overflow, peek_nth(n) returns what the last of
\* n + 1 peek() calls returns and leaves the cursor in the state they leave.
C6_PeekNthIsRepeatedPeek ==
  (last.op = "peek_nth" /\ last.n < UsizeMax) =>
    LET r == PeekTimes(last.pre, last.n + 1)
    IN last.res = r.res /\ cur = r.self

\* C7: peek_nth(n) returns end-of-sequence when fewer than n + 1 elements
\* remain ahead of the lookahead position.
C7_PeekNthPastEnd ==
  (last.op = "peek_nth" /\ last.n < UsizeMax /\ LookPos(last.pre) + last.n >= Len(S)) =>
    last.res = None

\* C8: rewind_peeking() makes the next peek() return the element at the base
\* position, and a cursor whose rewind_peeking clears the lookahead and one
\* whose rewind_peeking re-clones the base, otherwise alike and given the same
\* calls, return the same results (line() and col() included).
C8_RewindPoliciesAgree ==
  /\ last.res = last.altres
  /\ kind = "Parser" => (Parser_line(cur) = Parser_line(alt) /\ Parser_col(cur) = Parser_col(alt))
  /\ last.op = "rewind_peeking" =>
       (PeekOf(cur) = Elem(cur.iter) /\ PeekOf(alt) = Elem(cur.iter))

C8_Witness ==
  /\ last.op = "rewind_peeking"
  /\ last.pre.iter = 1
  /\ last.pre.peeking = Some(3)
  /\ cur.peeking # alt.peeking
  /\ PeekOf(cur) = Some(S[2])
  /\ PeekOf(alt) = Some(S[2])

\* C9: a new Parser has line() = 1 and col() = 0; a next() that yields a
\* newline adds 1 to line and sets col to 0, one that yields another character
\* adds 1 to col and keeps line, one that yields end-of-sequence keeps both;
\* so while only next() and next_while() moved the base, line() is 1 + the
\* number of committed newlines and col() the number of characters committed
\* since the last of them.
C9_PositionRule ==
  kind = "Parser" =>
    /\ last.op = "new" => (Parser_line(cur) = 1 /\ Parser_col(cur) = 0)
    /\ (last.op = "next" /\ last.res = Some("\n")) =>
         (Parser_line(cur) = Parser_line(last.pre) + 1 /\ Parser_col(cur) = 0)
    /\ (last.op = "next" /\ last.res # None /\ last.res # Some("\n")) =>
         (Parser_line(cur) = Parser_line(last.pre) /\ Parser_col(cur) = Parser_col(last.pre) + 1)
    /\ (last.op = "next" /\ last.res = None) =>
         (Parser_line(cur) = Parser_line(last.pre) /\ Parser_col(cur) = Parser_col(last.pre))
    /\ ~usedAdv =>
         /\ Parser_line(cur) = 1 + NewlinesBefore(committed)
         /\ Parser_col(cur) = SinceNewline(committed)

C9_Witness ==
  /\ kind = "Parser"
  /\ last.op = "next"
  /\ last.res = Some("\n")
  /\ Parser_col(last.pre) = 1
  /\ Parser_line(cur) = 3
  /\ Parser_col(cur) = 0
  /\ ~usedAdv

\* C10 as stated: "ab\nc" after three next() calls has line() = 2 and
\* col() = 1; "abc" after three next() calls has line() = 1 and col() = 3.
C10_ScenariosAsStated ==
  (kind = "Parser" /\ onlyNext /\ committed = 3) =>
    /\ S = <<"a", "b", "\n", "c">> => (Parser_line(cur) = 2 /\ Parser_col(cur) = 1)
    /\ S = <<"a", "b", "c">> => (Parser_line(cur) = 1 /\ Parser_col(cur) = 3)

\* C10 amended: "ab\nc" after three next() calls has line() = 2 and
\* col() = 0; "abc" after three next() calls has line() = 1 and col() = 3.
C10_Scenarios ==
  (kind = "Parser" /\ onlyNext /\ committed = 3) =>
    /\ S = <<"a", "b", "\n", "c">> => (Parser_line(cur) = 2 /\ Parser_col(cur) = 0)
    /\ S = <<"a", "b", "c">> => (Parser_line(cur) = 1 /\ Parser_col(cur) = 3)

C10_Witness ==
  /\ kind = "Parser"
  /\ onlyNext
  /\ committed = 3
  /\ S = <<"a", "b", "\n", "c">>
  /\ last.op = "next"
  /\ last.res = Some("\n")

\* The remaining output of a producer at position it.
RECURSIVE Drain(_)
Drain(it) ==
  LET r == iter_next(it)
  IN IF r.item = None THEN <<>> ELSE r.item \o Drain(r.iter)

\* What next() called on cursor state c until end-of-sequence returns.
RECURSIVE NextAll(_)
NextAll(c) ==
  LET r == IF kind = "PeekingIter" THEN PeekingIter_next(c) ELSE Parser_next(c)
  IN IF r.res = None THEN <<>> ELSE r.res \o NextAll(r.self)

NewCursor == IF kind = "PeekingIter" THEN PeekingIter_new(0) ELSE Parser_new(0)

\* C11: in every reachable state of the text cursor line() is 1 + the number
\* of newlines the base producer has passed and col() the number of elements
\* it has passed since the last of them, advance_to_peeked() included.
C11_PositionFollowsBase ==
  kind = "Parser" =>
    /\ Parser_line(cur) = 1 + NewlinesBefore(cur.iter)
    /\ Parser_col(cur) = SinceNewline(cur.iter)

\* C12: on the text cursor peek(), peek_nth(n) and rewind_peeking() leave
\* line() and col() as they were.
C12_PeekKeepsPosition ==
  (kind = "Parser" /\ last.op \in {"peek", "peek_nth", "rewind_peeking"}) =>
    /\ Parser_line(cur) = Parser_line(last.pre)
    /\ Parser_col(cur) = Parser_col(last.pre)

C12_Witness ==
  /\ kind = "Parser"
  /\ last.op = "peek_nth"
  /\ last.n = 1
  /\ last.pre.iter = 1
  /\ cur.peeking = Some(3)
  /\ S[2] = "\n"
  /\ Parser_line(cur) = 1
  /\ Parser_col(cur) = 1

\* C13: into_inner returns the base producer at its position k: its remaining
\* output is S[k..], which is what next() would have gone on to return,
\* however far the lookahead had advanced; from a new cursor it is all of S.
C13_IntoInnerIsBase ==
  last.op = "into_inner" =>
    LET out == Drain(last.res[1])
    IN /\ out = SubSeq(S, last.pre.iter + 1, Len(S))
       /\ out = NextAll(last.pre)
       /\ ~usedAdv => out = SubSeq(S, committed + 1, Len(S))
       /\ last.pre = NewCursor => out = S

C13_Witness ==
  /\ last.op = "into_inner"
  /\ Len(S) = 3
  /\ last.pre.iter = 1
  /\ last.pre.peeking = Some(3)
  /\ Drain(last.res[1]) = SubSeq(S, 2, 3)

\* C14: peek_nth(n) with n the maximum usize, where n + 1 overflows, returns
\* end-of-sequence on both cursors and does not fault.
C14_PeekNthOverflow ==
  (last.op = "peek_nth" /\ last.n = UsizeMax) => (last.res = None /\ ~panicked)

C14_Witness ==
  /\ last.op = "peek_nth"
  /\ last.n = UsizeMax
  /\ last.res = None
  /\ last.pre.iter = 1
  /\ last.pre.peeking = Some(2)
  /\ PeekOf(cur) # None

\* C15: no call faults, and a next() of the text cursor that yields a
\* character leaves line() and col() at the values the position rule gives,
\* also with col or line at the maximum of its 16 bits.
C15_NoFaultNoWrap ==
  /\ ~panicked
  /\ (kind = "Parser" /\ last.op = "next" /\ last.res = Some("\n")) =>
       (Parser_line(cur) = Parser_line(last.pre) + 1 /\ Parser_col(cur) = 0)
  /\ (kind = "Parser" /\ last.op = "next" /\ last.res # None /\ last.res # Some("\n")) =>
       (Parser_line(cur) = Parser_line(last.pre) /\ Parser_col(cur) = Parser_col(last.pre) + 1)

\* C16: whenever a lookahead producer is present its position is at or ahead
\* of the base producer's.
C16_LookaheadNotBehind ==
  cur.peeking # None => cur.peeking[1] >= cur.iter

C16_Witness ==
  /\ last.op = "advance_to_peeked"
  /\ last.pre.iter = 0
  /\ last.pre.peeking = Some(2)
  /\ cur.iter = 2
  /\ cur.peeking # None

\* C17: next() leaves no lookahead producer, moves the base producer by one
\* element (by none when it is exhausted) and returns that element or
\* end-of-sequence.
C17_NextCommits ==
  (last.op = "next" /\ ~panicked) =>
    /\ cur.peeking = None
    /\ last.res = Elem(last.pre.iter)
    /\ cur.iter = IF last.pre.iter < Len(S) THEN last.pre.iter + 1 ELSE last.pre.iter

C17_Witness ==
  /\ last.op = "next"
  /\ last.pre.iter = 0
  /\ last.pre.peeking = Some(3)
  /\ cur.iter = 1
  /\ cur.peeking = None
  /\ last.res = Some(S[1])

\* C18 as stated: advance_to_peeked() called with a lookahead producer
\* present leaves the cursor without one.
C18_AdvanceAligns ==
  (last.op = "advance_to_peeked" /\ last.pre.peeking # None) => cur.peeking = None

\* C18 amended: advance_to_peeked() called with a lookahead producer present
\* moves the base to the lookahead position and keeps the lookahead producer,
\* at the same position as the base, so that the next peek() and the next
\* next() return the same element.
C18_AdvanceResyncs ==
  (last.op = "advance_to_peeked" /\ last.pre.peeking # None) =>
    /\ cur.iter = last.pre.peeking[1]
    /\ cur.peeking = Some(cur.iter)
    /\ PeekOf(cur) = NextOf(cur)

C18_Witness ==
  /\ last.op = "advance_to_peeked"
  /\ last.pre.iter = 1
  /\ last.pre.peeking = Some(2)
  /\ cur.iter = 2
  /\ cur.peeking = Some(2)
  /\ PeekOf(cur) # None

\* C19: advance_to_peeked() called with no lookahead producer changes
\* nothing: base position, absent lookahead, line and col stay, and next()
\* and peek() return what they would have returned.
C19_AdvanceNoop ==
  (last.op = "advance_to_peeked" /\ last.pre.peeking = None) =>
    /\ cur = last.pre
    /\ cur.peeking = None
    /\ NextOf(cur) = NextOf(last.pre)
    /\ PeekOf(cur) = PeekOf(last.pre)

C19_Witness ==
  /\ last.op = "advance_to_peeked"
  /\ last.pre.peeking = None
  /\ last.pre.iter = 1
  /\ cur.iter = 1
  /\ NextOf(cur) # None

\* C20: during next_while(pred) from base position k the predicate is called
\* once on each of S[k], S[k+1], ... in that order up to its first rejection:
\* the calls number the length of the result, plus one when the loop stopped
\* on a rejected element.
C20_PredCalls ==
  last.op = "next_while" =>
    /\ last.cands = [i \in 1..last.calls |-> last.pre.iter + i - 1]
    /\ last.calls = Len(last.res) + (IF last.stop = "reject" THEN 1 ELSE 0)

====
